---- MODULE Spec2Model ----
(***************************************************************************)
(* Model of src/app.py: the MentalHealthAnalyzer text-scoring engine and   *)
(* the Streamlit session that calls it.                                    *)
(*                                                                         *)
(* Text is a sequence of atoms.  An atom is a short run of characters      *)
(* (a word, a word part, a blank, a full stop); the text is the            *)
(* concatenation of its atoms, so `kw in text` is contiguous-subsequence   *)
(* containment and str.lower()/str.strip() act atom by atom.               *)
(* Python floats are modelled as exact rationals [num, den] in lowest      *)
(* terms.                                                                  *)
(***************************************************************************)
EXTENDS Integers, Sequences, FiniteSets, TLC

VARIABLES
    analysis_history,   \* st.session_state.analysis_history
    user_logged_in,     \* st.session_state.user_logged_in
    current_user,       \* st.session_state.current_user
    users_db,           \* st.session_state.users_db
    now,                \* the wall clock read by datetime.now()
    last                \* the last call made: its inputs and what the caller saw

vars == <<analysis_history, user_logged_in, current_user, users_db, now, last>>

---------------------------------------------------------------------------
(* Bounds of the model *)

\* longest text body, in atoms, given to analyze_text on its own
MaxLen == 4
\* number of plain words put in front of a body to make a long text
PadWords == 10
\* most records kept in the history
MaxHistory == 2
\* last clock value
MaxTime == 1
\* largest keyword count and total word count given to the scoring formula
MaxCount == 4
MaxWords == 40
\* largest denominator of the scores given to the banding and the decision table
MaxDen == 20

---------------------------------------------------------------------------
(* Rationals *)

RECURSIVE GCD(_, _)
GCD(a, b) == IF b = 0 THEN a ELSE GCD(b, a % b)

Abs(n) == IF n < 0 THEN -n ELSE n

\* n/d in lowest terms, d > 0
R(n, d) ==
    LET g == GCD(Abs(n), Abs(d))
        s == IF d < 0 THEN -1 ELSE 1
    IN  [num |-> (s * n) \div g, den |-> (s * d) \div g]

RAdd(x, y) == R(x.num * y.den + y.num * x.den, x.den * y.den)
RDiv(x, y) == R(x.num * y.den, x.den * y.num)
RGeq(x, y) == x.num * y.den >= y.num * x.den
RLt(x, y)  == ~RGeq(x, y)
RMax(x, y) == IF RGeq(x, y) THEN x ELSE y
RMin(x, y) == IF RGeq(x, y) THEN y ELSE x

Zero == R(0, 1)
One  == R(1, 1)

---------------------------------------------------------------------------
(* Text primitives *)

Space == " "
Stop  == "."

\* the atoms a modelled text is made of
TextAtoms == {"Sad", "worried", "overwhelmed", "happy", Space, Stop}

\* str.lower(), on one atom and on a text
LowerAtom(a) == IF a = "Sad" THEN "sad" ELSE a
Lower(t) == [i \in 1..Len(t) |-> LowerAtom(t[i])]

IsSpace(a) == a = Space
IsStop(a)  == a = Stop
\* strip() left out: the text as it is
NoStrip(t) == t

\* str.strip()
Strip(t) ==
    LET idx == {i \in 1..Len(t) : ~IsSpace(t[i])}
    IN  IF idx = {} THEN <<>>
        ELSE LET lo == CHOOSE i \in idx : \A j \in idx : i <= j
                 hi == CHOOSE i \in idx : \A j \in idx : i >= j
             IN  SubSeq(t, lo, hi)

\* `kw in t`: kw is a contiguous part of t
Contains(t, kw) ==
    \E i \in 1..(Len(t) - Len(kw) + 1) : SubSeq(t, i, i + Len(kw) - 1) = kw

\* t cut at every atom of seps, the separators dropped (empty pieces kept)
RECURSIVE Split(_, _)
Split(t, seps) ==
    IF t = <<>> THEN << <<>> >>
    ELSE LET rest == Split(Tail(t), seps)
         IN  IF Head(t) \in seps THEN << <<>> >> \o rest
             ELSE << <<Head(t)>> \o rest[1] >> \o Tail(rest)

SelectNonEmpty(ss) == SelectSeq(ss, LAMBDA s : s # <<>>)
MapStrip(ss) == [i \in 1..Len(ss) |-> Strip(ss[i])]

Flatten(ss) ==
    LET RECURSIVE F(_)
        F(k) == IF k > Len(ss) THEN <<>> ELSE ss[k] \o F(k + 1)
    IN  F(1)

---------------------------------------------------------------------------
(* NLTK's tokenizers, as far as the program relies on them *)

\* the Punkt sentence splitter: a sentence ends at a full stop that is
\* followed by white space; sentences keep their full stops and come back
\* without surrounding white space
RECURSIVE PunktSplit(_)
PunktSplit(t) ==
    IF t = <<>> THEN << <<>> >>
    ELSE LET rest == PunktSplit(Tail(t))
         IN  IF IsStop(Head(t)) /\ Len(t) > 1 /\ IsSpace(t[2])
             THEN << <<Head(t)>> >> \o rest
             ELSE << <<Head(t)>> \o rest[1] >> \o Tail(rest)

sent_tokenize(t) == SelectNonEmpty(MapStrip(PunktSplit(t)))

\* the Treebank word tokenizer on one sentence: the chunks between white
\* space, the full stop that ends the sentence being a token of its own
TreebankWords(s) ==
    LET chunks == SelectNonEmpty(Split(s, {Space}))
        n == Len(chunks)
    IN  IF n = 0 THEN <<>>
        ELSE LET c == chunks[n]
                 m == Len(c)
             IN  IF m >= 2 /\ IsStop(c[m]) /\ ~IsStop(c[m - 1])
                 THEN SubSeq(chunks, 1, n - 1) \o <<SubSeq(c, 1, m - 1), <<Stop>> >>
                 ELSE chunks

word_tokenize(t) ==
    LET ss == sent_tokenize(t)
    IN  Flatten([i \in 1..Len(ss) |-> TreebankWords(ss[i])])

---------------------------------------------------------------------------
(* MentalHealthAnalyzer *)

\* a keyword of one word, of several words, and of a word with an ending
W1(a) == <<a>>
W2(a, b) == <<a, Space, b>>
W3(a, b, c) == <<a, Space, b, Space, c>>
Cant(a) == <<"can", "'", "t", Space>> \o a

depression_keywords == <<
    W1("depressed"), W1("sad"), W1("hopeless"), W1("worthless"), W1("empty"), W1("numb"),
    W1("lonely"), W1("isolated"), W1("tired"), W1("exhausted"), W1("sleep"), W1("insomnia"),
    W1("cry"), <<"cry", "ing">>, W1("tears"), W1("suicide"), W2("kill", "myself"),
    W3("end", "it", "all"), W2("no", "point"), W2("give", "up"), Cant(W2("go", "on")),
    W2("hate", "myself"), W1("failure"), W1("disappointed"), W1("regret"), W1("guilty"),
    W1("shame"), W1("burden") >>

anxiety_keywords == <<
    W1("anxious"), W1("worried"), W1("nervous"), W1("panic"), W1("fear"), W1("scared"),
    W1("overwhelmed"), <<"stress", "ed">>, W1("tension"), W1("restless"), W1("uneasy"),
    W1("paranoid"), W1("worried"), W1("concern"), W1("afraid"), W1("terrified"),
    W2("heart", "racing"), Cant(W1("breathe")), W1("sweating"), W1("trembling"),
    W2("what", "if"), W1("catastrophe"), W1("disaster"), W1("danger") >>

stress_keywords == <<
    W1("stress"), W1("pressure"), W1("overwhelmed"), W1("burden"), W2("too", "much"),
    Cant(W1("handle")), W2("breaking", "point"), W1("exhausted"), W2("burned", "out"),
    W1("deadline"), W1("rushed"), W1("hurry"), W1("chaos"), W1("hectic"), W1("frantic"),
    W1("struggling"), W1("difficult"), W1("hard"), W1("challenging"), W1("demanding") >>

positive_keywords == <<
    W1("happy"), W1("joy"), W1("excited"), W1("grateful"), W1("blessed"), W1("amazing"),
    W1("wonderful"), W1("great"), W1("fantastic"), W1("love"), W1("peaceful"), W1("calm"),
    W1("relaxed"), W1("confident"), W1("proud"), W1("accomplished"), W1("successful"),
    W1("optimistic"), W1("hopeful"), W1("content"), W1("satisfied"), W1("fulfilled") >>

\* SentimentIntensityAnalyzer(): needs the VADER lexicon
NewAnalyzer(lexicon) ==
    IF lexicon THEN [status |-> "ok"] ELSE [status |-> "raised", error |-> "LookupError"]

\* safe_tokenize: NLTK's tokenizers, and the regular expressions when they raise
safe_tokenize(text, punkt) ==
    IF punkt
    THEN [sentences |-> sent_tokenize(Lower(text)), words |-> word_tokenize(Lower(text))]
    ELSE [sentences |-> SelectNonEmpty(MapStrip(Split(Lower(text), {Stop}))),
          words |-> SelectNonEmpty(Split(Lower(text), {Space, Stop, "'"}))]

\* a keyword count taken on the text as typed, without lower()
KeywordCountCased(keywords, text) ==
    Cardinality({i \in 1..Len(keywords) : Contains(text, keywords[i])})

\* a keyword count that carries over from the analyses already in the history
KeywordCountCarried(keywords, text) ==
    Cardinality({i \in 1..Len(keywords) : Contains(Lower(text), keywords[i])})
        + Len(analysis_history)

\* sum(1 for word in keywords if word in text.lower())
KeywordCount(keywords, text) ==
    LET lowered == Lower(text)
    IN  Cardinality({i \in 1..Len(keywords) : Contains(lowered, keywords[i])})

\* the formula with one added to the count, so that no score is 0
CategoryScoreSmoothed(count, total_words) ==
    RMin(RDiv(R(count + 1, 1), RMax(R(total_words, 10), One)), One)

\* the formula without the factor 0.1: count / max(total_words, 1), capped
CategoryScorePerWord(count, total_words) ==
    RMin(RDiv(R(count, 1), RMax(R(total_words, 1), One)), One)

\* the formula without its cap: count / max(total_words * 0.1, 1)
CategoryScoreUncapped(count, total_words) ==
    RDiv(R(count, 1), RMax(R(total_words, 10), One))

\* min(count / max(total_words * 0.1, 1), 1)
CategoryScore(count, total_words) ==
    RMin(RDiv(R(count, 1), RMax(R(total_words, 10), One)), One)

\* the bands with > where the code has >=
get_severity_exclusive(score) ==
    IF RLt(R(3, 10), score) THEN "High"
    ELSE IF RLt(R(15, 100), score) THEN "Moderate"
    ELSE IF RLt(R(5, 100), score) THEN "Mild"
    ELSE "Low"

get_severity(score) ==
    IF RGeq(score, R(3, 10)) THEN "High"
    ELSE IF RGeq(score, R(15, 100)) THEN "Moderate"
    ELSE IF RGeq(score, R(5, 100)) THEN "Mild"
    ELSE "Low"

\* the decision table with the moderate band asking for positive >= 0.2
get_overall_assessment_same_threshold(negative_score, positive_score) ==
    IF RGeq(negative_score, R(3, 10))
    THEN IF RGeq(positive_score, R(2, 10))
         THEN "Mixed emotions with significant concerns - consider professional support"
         ELSE "High concern detected - strongly recommend professional help"
    ELSE IF RGeq(negative_score, R(15, 100))
    THEN IF RGeq(positive_score, R(2, 10))
         THEN "Moderate concerns with positive elements - monitor closely"
         ELSE "Moderate concern - consider speaking with someone"
    ELSE IF RGeq(negative_score, R(5, 100))
    THEN "Mild concerns detected - practice self-care"
    ELSE IF RGeq(positive_score, R(2, 10))
         THEN "Positive mental state - keep up the good work!"
         ELSE "Neutral state - maintain healthy habits"

get_overall_assessment(negative_score, positive_score) ==
    IF RGeq(negative_score, R(3, 10))
    THEN IF RGeq(positive_score, R(2, 10))
         THEN "Mixed emotions with significant concerns - consider professional support"
         ELSE "High concern detected - strongly recommend professional help"
    ELSE IF RGeq(negative_score, R(15, 100))
    THEN IF RGeq(positive_score, R(3, 10))
         THEN "Moderate concerns with positive elements - monitor closely"
         ELSE "Moderate concern - consider speaking with someone"
    ELSE IF RGeq(negative_score, R(5, 100))
    THEN "Mild concerns detected - practice self-care"
    ELSE IF RGeq(positive_score, R(2, 10))
         THEN "Positive mental state - keep up the good work!"
         ELSE "Neutral state - maintain healthy habits"

\* the keyword loop without its break: a phrase for every keyword that matches
PhraseForEveryHit(sentence, type, keywords) ==
    LET sentence_lower == Lower(sentence)
        hits == SelectSeq(keywords, LAMBDA kw : Contains(sentence_lower, kw))
    IN  [i \in 1..Len(hits) |->
            [phrase |-> Strip(sentence), type |-> type, keyword |-> hits[i]]]

\* the keyword loop appending the lowercased sentence
PhraseForLowered(sentence, type, keywords) ==
    LET sentence_lower == Lower(sentence)
        hits == {i \in 1..Len(keywords) : Contains(sentence_lower, keywords[i])}
    IN  IF hits = {} THEN <<>>
        ELSE << [phrase |-> Strip(sentence_lower), type |-> type,
                 keyword |-> keywords[CHOOSE i \in hits : \A j \in hits : i <= j]] >>

\* one `for keyword in keywords: if keyword in sentence_lower: append; break`
PhraseFor(sentence, type, keywords) ==
    LET sentence_lower == Lower(sentence)
        hits == {i \in 1..Len(keywords) : Contains(sentence_lower, keywords[i])}
    IN  IF hits = {} THEN <<>>
        ELSE << [phrase |-> Strip(sentence), type |-> type,
                 keyword |-> keywords[CHOOSE i \in hits : \A j \in hits : i <= j]] >>

\* the body of the loop over the sentences: the three keyword loops in turn
SentencePhrases(sentence) ==
    PhraseFor(sentence, "depression", depression_keywords)
    \o PhraseFor(sentence, "anxiety", anxiety_keywords)
    \o PhraseFor(sentence, "stress", stress_keywords)

\* find_concerning_phrases: sent_tokenize is called bare, so its error leaves
find_concerning_phrases(text, punkt) ==
    IF ~punkt THEN [status |-> "raised", error |-> "LookupError"]
    ELSE LET ss == sent_tokenize(text)
         IN  [status |-> "ok",
              value |-> Flatten([i \in 1..Len(ss) |-> SentencePhrases(ss[i])])]

NeutralSentiment == [compound |-> Zero, neg |-> Zero, neu |-> One, pos |-> Zero]

\* self.sia.polarity_scores(text) inside try/except
SentimentOf(env) == IF env.scorer THEN env.vader ELSE NeutralSentiment

CategoryResult(score, count) ==
    [score |-> score, severity |-> get_severity(score), count |-> count]

\* the sum of the three scores divided by the number of all categories
OverallScoreOfFour(depression_score, anxiety_score, stress_score) ==
    RDiv(RAdd(RAdd(depression_score, anxiety_score), stress_score), R(4, 1))

\* (depression_score + anxiety_score + stress_score) / 3
OverallScore(depression_score, anxiety_score, stress_score) ==
    RDiv(RAdd(RAdd(depression_score, anxiety_score), stress_score), R(3, 1))

\* the scores, severities and assessment of a record, from the four counts
\* and the number of word tokens
Scoring(depression_count, anxiety_count, stress_count, positive_count, total_words) ==
    LET depression_score == CategoryScore(depression_count, total_words)
        anxiety_score == CategoryScore(anxiety_count, total_words)
        stress_score == CategoryScore(stress_count, total_words)
        positive_score == CategoryScore(positive_count, total_words)
        overall_score == OverallScore(depression_score, anxiety_score, stress_score)
    IN  [depression |-> CategoryResult(depression_score, depression_count),
         anxiety |-> CategoryResult(anxiety_score, anxiety_count),
         stress |-> CategoryResult(stress_score, stress_count),
         positive |-> CategoryResult(positive_score, positive_count),
         overall_assessment |-> get_overall_assessment(overall_score, positive_score),
         overall_score |-> overall_score]

\* analyze_text: None for blank text, the record, or the error that leaves it
analyze_text(text, env, time) ==
    IF Strip(text) = <<>> THEN [status |-> "None"]
    ELSE
    LET sentiment_scores == SentimentOf(env)
        words == safe_tokenize(text, env.punkt).words
        scoring == Scoring(KeywordCount(depression_keywords, text),
                           KeywordCount(anxiety_keywords, text),
                           KeywordCount(stress_keywords, text),
                           KeywordCount(positive_keywords, text),
                           Len(words))
        highlighted == find_concerning_phrases(text, env.punkt)
    IN  IF highlighted.status = "raised" THEN highlighted
        ELSE [status |-> "ok",
              value |-> [timestamp |-> time,
                         text |-> text,
                         sentiment |-> sentiment_scores,
                         highlighted_phrases |-> highlighted.value] @@ scoring]

---------------------------------------------------------------------------
(* The analyzer's methods applied to one text: the input is drawn in the
   initial state and each action is one call *)

\* n plain words, each followed by a blank
RECURSIVE Pad(_)
Pad(n) == IF n = 0 THEN <<>> ELSE <<"ok", Space>> \o Pad(n - 1)

Bodies(n) == UNION {[1..k -> TextAtoms] : k \in 0..n}
Texts == {Pad(n) \o b : n \in {0, PadWords}, b \in Bodies(MaxLen)}

\* what polarity_scores returns when it returns
VaderOutputs ==
    { [compound |-> R(-1, 2), neg |-> R(1, 2), neu |-> R(1, 2), pos |-> Zero] }

\* the NLTK resources of one run of the script: the Punkt model is loaded or
\* not; the VADER lexicon is loaded or not, and with it loaded the scorer
\* answers (with env.vader) or raises
Envs ==
    {[punkt |-> p, lexicon |-> TRUE, scorer |-> TRUE, vader |-> v] :
        p \in BOOLEAN, v \in VaderOutputs}
    \cup {[punkt |-> p, lexicon |-> l, scorer |-> FALSE, vader |-> NeutralSentiment] :
        p \in BOOLEAN, l \in BOOLEAN}

SessionInit ==
    /\ analysis_history = <<>>
    /\ user_logged_in = FALSE
    /\ current_user = "None"
    /\ users_db = <<>>
    /\ now = 0

session == <<analysis_history, user_logged_in, current_user, users_db, now>>

InitAnalyze ==
    /\ SessionInit
    /\ \E t \in Texts, e \in Envs : last = [op |-> "input", text |-> t, env |-> e]

\* MentalHealthAnalyzer()
CallNewAnalyzer ==
    /\ last.op = "input"
    /\ last' = [op |-> "MentalHealthAnalyzer", text |-> last.text, env |-> last.env,
                result |-> NewAnalyzer(last.env.lexicon)]
    /\ UNCHANGED session

\* the methods are called on an analyzer that was built
CallAnalyzeText ==
    /\ last.op = "input"
    /\ NewAnalyzer(last.env.lexicon).status = "ok"
    /\ last' = [op |-> "analyze_text", text |-> last.text, env |-> last.env,
                result |-> analyze_text(last.text, last.env, now)]
    /\ UNCHANGED session

CallFindConcerningPhrases ==
    /\ last.op = "input"
    /\ NewAnalyzer(last.env.lexicon).status = "ok"
    /\ last' = [op |-> "find_concerning_phrases", text |-> last.text, env |-> last.env,
                result |-> find_concerning_phrases(last.text, last.env.punkt)]
    /\ UNCHANGED session

CallSafeTokenize ==
    /\ last.op = "input"
    /\ NewAnalyzer(last.env.lexicon).status = "ok"
    /\ last' = [op |-> "safe_tokenize", text |-> last.text, env |-> last.env,
                result |-> safe_tokenize(last.text, last.env.punkt)]
    /\ UNCHANGED session

NextAnalyze == CallNewAnalyzer \/ CallAnalyzeText \/ CallFindConcerningPhrases \/ CallSafeTokenize

SpecAnalyze == InitAnalyze /\ [][NextAnalyze]_vars

---------------------------------------------------------------------------
(* The scoring formula, the severity bands and the decision table applied to
   numbers: the input is drawn in the initial state and each action is one
   call *)

\* word counts of long texts, beside 0..MaxWords
LongTexts == {66, 67, 100, 199, 200, 201}

\* the scores n/d in [0,1] with d up to MaxDen
ScoreGrid ==
    {R(q[1], q[2]) : q \in {p \in (0..MaxDen) \X (1..MaxDen) : p[1] <= p[2]}}

InitScore ==
    /\ SessionInit
    /\ \/ \E c \in [{"depression", "anxiety", "stress", "positive"} -> 0..MaxCount],
             w \in (0..MaxWords) \cup LongTexts :
                last = [op |-> "counts", counts |-> c, total_words |-> w]
       \/ \E a \in ScoreGrid, b \in ScoreGrid :
                last = [op |-> "scores", a |-> a, b |-> b]

CallScoring ==
    /\ last.op = "counts"
    /\ last' = [op |-> "scoring", counts |-> last.counts, total_words |-> last.total_words,
                result |-> Scoring(last.counts.depression, last.counts.anxiety,
                                   last.counts.stress, last.counts.positive,
                                   last.total_words)]
    /\ UNCHANGED session

CallGetSeverity ==
    /\ last.op = "scores"
    /\ last' = [op |-> "get_severity", a |-> last.a, b |-> last.b,
                result |-> [a |-> get_severity(last.a), b |-> get_severity(last.b)]]
    /\ UNCHANGED session

CallGetOverallAssessment ==
    /\ last.op = "scores"
    /\ last' = [op |-> "get_overall_assessment", a |-> last.a, b |-> last.b,
                result |-> get_overall_assessment(last.a, last.b)]
    /\ UNCHANGED session

NextScore == CallScoring \/ CallGetSeverity \/ CallGetOverallAssessment

SpecScore == InitScore /\ [][NextScore]_vars

---------------------------------------------------------------------------
(* The page: one action per form submission or button press, each a run of
   the script over the session state *)

Usernames == {"alice", "bob"}
Passwords == {"p1", "p2"}
Emails == {"a@example.org"}

\* the texts typed into the text area
AppTexts == {<<>>, <<Space, Space>>, <<"Sad", Space, "worried", Stop>>, <<"happy">>}

\* the NLTK resources of a run of the page: each resource loaded or missing
AppEnvs == {e \in Envs : e.lexicon => e.scorer}

\* analysis_history[-10:]
HistoryShown == 10
LastN(h, n) == IF Len(h) <= n THEN h ELSE SubSeq(h, Len(h) - n + 1, Len(h))

\* hashlib.sha256(password.encode()).hexdigest()
hash_password(password) == <<"sha256", password>>

\* a create_user without the check for an existing username
create_user_overwriting(db, username, password, email, time) ==
    [success |-> TRUE, message |-> "User created successfully",
     db |-> [u \in DOMAIN db \cup {username} |->
                IF u = username
                THEN [password |-> hash_password(password), email |-> email,
                      created_at |-> time]
                ELSE db[u]]]

\* create_user: the outcome and the users_db it leaves
create_user(db, username, password, email, time) ==
    IF username \in DOMAIN db
    THEN [success |-> FALSE, message |-> "Username already exists", db |-> db]
    ELSE [success |-> TRUE, message |-> "User created successfully",
          db |-> [u \in DOMAIN db \cup {username} |->
                    IF u = username
                    THEN [password |-> hash_password(password), email |-> email,
                          created_at |-> time]
                    ELSE db[u]]]

\* a verification that looks up the username and accepts any password
verify_user_any_password(db, username, password) ==
    IF username \notin DOMAIN db
    THEN [success |-> FALSE, message |-> "User not found"]
    ELSE [success |-> TRUE, message |-> "Login successful"]

\* verify_user: the outcome and its message
verify_user(db, username, password) ==
    IF username \notin DOMAIN db
    THEN [success |-> FALSE, message |-> "User not found"]
    ELSE IF db[username].password = hash_password(password)
    THEN [success |-> TRUE, message |-> "Login successful"]
    ELSE [success |-> FALSE, message |-> "Invalid password"]

Init ==
    /\ SessionInit
    /\ last = [op |-> "start"]

\* show_auth_page, the login form submitted with the Login button
Login(username, password) ==
    /\ ~user_logged_in
    /\ IF username # "" /\ password # ""
       THEN LET v == verify_user(users_db, username, password)
            IN  /\ user_logged_in' = (IF v.success THEN TRUE ELSE user_logged_in)
                /\ current_user' = (IF v.success THEN username ELSE current_user)
                /\ last' = [op |-> "login", username |-> username, password |-> password,
                            shown |-> v.message]
       ELSE /\ UNCHANGED <<user_logged_in, current_user>>
            /\ last' = [op |-> "login", username |-> username, password |-> password,
                        shown |-> "Please fill in all fields"]
    /\ UNCHANGED <<analysis_history, users_db, now>>

\* the login form submitted with the Forgot Password? button
ForgotPassword ==
    /\ ~user_logged_in
    /\ last' = [op |-> "forgot_password",
                shown |-> "Password reset functionality would be implemented here"]
    /\ UNCHANGED session

\* show_auth_page, the sign-up form submitted
SignUp(new_username, new_email, new_password, confirm_password, terms) ==
    /\ ~user_logged_in
    /\ LET form == [username |-> new_username, password |-> new_password]
       IN
       IF new_username # "" /\ new_email # "" /\ new_password # "" /\ confirm_password # ""
       THEN IF new_password # confirm_password
            THEN /\ last' = [op |-> "signup", form |-> form,
                             shown |-> "Passwords do not match"]
                 /\ UNCHANGED users_db
            ELSE IF ~terms
            THEN /\ last' = [op |-> "signup", form |-> form,
                             shown |-> "Please accept the terms and conditions"]
                 /\ UNCHANGED users_db
            ELSE LET c == create_user(users_db, new_username, new_password, new_email, now)
                 IN  /\ users_db' = c.db
                     /\ last' = [op |-> "signup", form |-> form, shown |-> c.message]
       ELSE /\ last' = [op |-> "signup", form |-> form,
                        shown |-> "Please fill in all fields"]
            /\ UNCHANGED users_db
    /\ UNCHANGED <<analysis_history, user_logged_in, current_user, now>>

\* a run of main() with a user logged in starts by building the analyzer;
\* when that raises, the run ends there and no button is handled
RunAborted(lexicon) ==
    /\ user_logged_in
    /\ NewAnalyzer(lexicon).status = "raised"
    /\ last' = [op |-> "run_aborted", shown |-> "exception"]
    /\ UNCHANGED session

\* a Logout button that leaves the history in the session
LogoutKeepingHistory(lexicon) ==
    /\ user_logged_in
    /\ NewAnalyzer(lexicon).status = "ok"
    /\ user_logged_in' = FALSE
    /\ current_user' = "None"
    /\ last' = [op |-> "logout", shown |-> "rerun"]
    /\ UNCHANGED <<analysis_history, users_db, now>>

\* the Logout button
Logout(lexicon) ==
    /\ user_logged_in
    /\ NewAnalyzer(lexicon).status = "ok"
    /\ user_logged_in' = FALSE
    /\ current_user' = "None"
    /\ analysis_history' = <<>>
    /\ last' = [op |-> "logout", shown |-> "rerun"]
    /\ UNCHANGED <<users_db, now>>

\* the Analyze Text button
AnalyzeButton(user_text, env) ==
    /\ user_logged_in
    /\ NewAnalyzer(env.lexicon).status = "ok"
    /\ IF Strip(user_text) # <<>>
       THEN LET analysis == analyze_text(user_text, env, now)
            IN  IF analysis.status = "ok"
                THEN /\ Len(analysis_history) < MaxHistory
                     /\ analysis_history' = Append(analysis_history, analysis.value)
                     /\ last' = [op |-> "analyze", text |-> user_text,
                                 shown |-> "Analysis completed successfully!"]
                ELSE /\ UNCHANGED analysis_history
                     /\ last' = [op |-> "analyze", text |-> user_text,
                                 shown |-> IF analysis.status = "raised"
                                           THEN "exception" ELSE "nothing"]
       ELSE /\ UNCHANGED analysis_history
            /\ last' = [op |-> "analyze", text |-> user_text,
                        shown |-> "Please enter some text to analyze."]
    /\ UNCHANGED <<user_logged_in, current_user, users_db, now>>

\* what both reports print of a record
ReportLines(h) ==
    [i \in 1..Len(h) |->
        [timestamp |-> h[i].timestamp,
         depression |-> h[i].depression.severity,
         anxiety |-> h[i].anxiety.severity,
         stress |-> h[i].stress.severity,
         overall |-> h[i].overall_assessment]]

\* export_results_pdf: the last ten records
export_results_pdf(history) == ReportLines(LastN(history, HistoryShown))

\* the PDF Report button
PdfReport(lexicon) ==
    /\ user_logged_in
    /\ analysis_history # <<>>
    /\ NewAnalyzer(lexicon).status = "ok"
    /\ last' = [op |-> "pdf_report", shown |-> "Download PDF",
                data |-> export_results_pdf(analysis_history)]
    /\ UNCHANGED session

\* the Text Report button: every record
TextReport(lexicon) ==
    /\ user_logged_in
    /\ analysis_history # <<>>
    /\ NewAnalyzer(lexicon).status = "ok"
    /\ last' = [op |-> "text_report", shown |-> "Download Text",
                data |-> ReportLines(analysis_history)]
    /\ UNCHANGED session

\* the Clear History button
ClearHistory(lexicon) ==
    /\ user_logged_in
    /\ analysis_history # <<>>
    /\ NewAnalyzer(lexicon).status = "ok"
    /\ analysis_history' = <<>>
    /\ last' = [op |-> "clear_history", shown |-> "History cleared!"]
    /\ UNCHANGED <<user_logged_in, current_user, users_db, now>>

\* time passes
Tick ==
    /\ now < MaxTime
    /\ now' = now + 1
    /\ UNCHANGED <<analysis_history, user_logged_in, current_user, users_db, last>>

Next ==
    \/ \E u \in Usernames \cup {""}, p \in Passwords \cup {""} : Login(u, p)
    \/ ForgotPassword
    \/ \E u \in Usernames \cup {""}, e \in Emails \cup {""},
          p \in Passwords \cup {""}, c \in Passwords \cup {""}, t \in BOOLEAN :
            SignUp(u, e, p, c, t)
    \/ \E lexicon \in BOOLEAN : RunAborted(lexicon)
    \/ \E lexicon \in BOOLEAN : Logout(lexicon)
    \/ \E t \in AppTexts, env \in AppEnvs : AnalyzeButton(t, env)
    \/ \E lexicon \in BOOLEAN : PdfReport(lexicon)
    \/ \E lexicon \in BOOLEAN : TextReport(lexicon)
    \/ \E lexicon \in BOOLEAN : ClearHistory(lexicon)
    \/ Tick

Spec == Init /\ [][Next]_vars

\* the page and the direct calls together: a behaviour is one of the page or
\* one direct call
DirectCalls ==
    {"input", "MentalHealthAnalyzer", "analyze_text", "find_concerning_phrases",
     "safe_tokenize", "counts", "scoring", "scores", "get_severity",
     "get_overall_assessment"}
InitAll == Init \/ InitAnalyze \/ InitScore
NextAll == (last.op \notin DirectCalls /\ Next) \/ NextAnalyze \/ NextScore
SpecAll == InitAll /\ [][NextAll]_vars

---------------------------------------------------------------------------
(* Properties of find_concerning_phrases, analyze_text and safe_tokenize *)

HasKeyword(s, keywords) ==
    \E i \in 1..Len(keywords) : Contains(Lower(s), keywords[i])

\* the negative categories with a keyword in the sentence, in loop order
TypesIn(s) ==
    (IF HasKeyword(s, depression_keywords) THEN <<"depression">> ELSE <<>>)
    \o (IF HasKeyword(s, anxiety_keywords) THEN <<"anxiety">> ELSE <<>>)
    \o (IF HasKeyword(s, stress_keywords) THEN <<"stress">> ELSE <<>>)

PhrasesReturned ==
    /\ last.op = "find_concerning_phrases"
    /\ last.result.status = "ok"

RecordReturned ==
    /\ last.op = "analyze_text"
    /\ last.result.status = "ok"

NonBlank(text) == \E i \in 1..Len(text) : ~IsSpace(text[i])

\* C1 as stated: a sentence contributes at most one phrase, so the list has one
\* phrase for each sentence that holds a keyword of any negative category
C1_OnePhrasePerSentence ==
    PhrasesReturned =>
        LET ss == sent_tokenize(last.text)
        IN  Len(last.result.value)
                = Cardinality({i \in 1..Len(ss) : TypesIn(ss[i]) # <<>>})

\* C1 (amended): a sentence contributes one phrase for each negative category
\* that has a keyword in it, in the order depression, anxiety, stress: at most
\* one phrase per sentence and category, up to three per sentence
C1_OnePhrasePerSentenceAndCategory ==
    PhrasesReturned =>
        LET ss == sent_tokenize(last.text)
            phrases == last.result.value
        IN  [i \in 1..Len(phrases) |-> phrases[i].type]
                = Flatten([i \in 1..Len(ss) |-> TypesIn(ss[i])])

C1_Witness ==
    /\ PhrasesReturned
    /\ \E i \in 1..Len(sent_tokenize(last.text)) :
            Len(TypesIn(sent_tokenize(last.text)[i])) >= 2
    /\ Len(last.result.value) > Len(sent_tokenize(last.text))

DistinctHits(keywords, text) ==
    Cardinality({keywords[i] : i \in {j \in 1..Len(keywords) :
                                        Contains(Lower(text), keywords[j])}})

\* C2: each category's count is the number of distinct keywords of the
\* category found in the lowercased text, a keyword listed twice counting once
C2_CountIsDistinctKeywords ==
    RecordReturned =>
        /\ last.result.value.depression.count = DistinctHits(depression_keywords, last.text)
        /\ last.result.value.anxiety.count = DistinctHits(anxiety_keywords, last.text)
        /\ last.result.value.stress.count = DistinctHits(stress_keywords, last.text)
        /\ last.result.value.positive.count = DistinctHits(positive_keywords, last.text)

\* C3: with the Punkt tokenizer unavailable, analyze_text on non-blank text raises nothing and returns a record
C3_TokenizerFailureRecovered ==
    (/\ last.op = "analyze_text"
     /\ NonBlank(last.text)
     /\ ~last.env.punkt)
        => last.result.status = "ok"

CountsOf(text) ==
    [depression |-> KeywordCount(depression_keywords, text),
     anxiety |-> KeywordCount(anxiety_keywords, text),
     stress |-> KeywordCount(stress_keywords, text),
     positive |-> KeywordCount(positive_keywords, text)]

ScoringWith(text, words) ==
    LET c == CountsOf(text)
    IN  Scoring(c.depression, c.anxiety, c.stress, c.positive, Len(words))

\* C4: the two paths of safe_tokenize give the same word sequence, and so the
\* same category scores and severities
C4_PathsCompatible ==
    last.op = "safe_tokenize" =>
        LET other == safe_tokenize(last.text, ~last.env.punkt)
        IN  /\ last.result.words = other.words
            /\ ScoringWith(last.text, last.result.words)
                    = ScoringWith(last.text, other.words)

\* C5: an unavailable scorer is never surfaced: building the analyzer raises
\* nothing when the lexicon is missing, and with the scorer raising (and the
\* Punkt tokenizer loaded) analyze_text on non-blank text returns a record, its
\* sentiment the neutral default and the rest as when the scorer answers
C5_ScorerFailureRecovered ==
    /\ last.op = "MentalHealthAnalyzer" => last.result.status = "ok"
    /\ (last.op = "analyze_text" /\ NonBlank(last.text) /\ last.env.punkt
            /\ ~last.env.scorer)
        => /\ last.result.status = "ok"
           /\ last.result.value.sentiment = NeutralSentiment
           /\ \E v \in VaderOutputs :
                LET good == analyze_text(last.text,
                                [last.env EXCEPT !.scorer = TRUE, !.vader = v], now).value
                IN  [last.result.value EXCEPT !.sentiment = good.sentiment] = good

---------------------------------------------------------------------------
(* Properties of the records and of the page *)

Categories == {"depression", "anxiety", "stress", "positive"}

BlankWarning == "Please enter some text to analyze."

\* the records the state holds: the one just returned or scored, and the history
RecordsInState ==
    (IF last.op = "analyze_text" /\ last.result.status = "ok"
     THEN {last.result.value} ELSE {})
    \cup (IF last.op = "scoring" THEN {last.result} ELSE {})
    \cup {analysis_history[i] : i \in 1..Len(analysis_history)}

\* C6: blank text gives no record: analyze_text returns None and raises
\* nothing, and a step that ends with Analyze pressed on blank text leaves the
\* history as it was and shows only the warning
C6_BlankInputNoRecord ==
    /\ [](last.op = "analyze_text" /\ ~NonBlank(last.text)
            => last.result.status = "None")
    /\ [][last'.op = "analyze" /\ ~NonBlank(last'.text)
            => /\ analysis_history' = analysis_history
               /\ last'.shown = BlankWarning]_vars

C6_Witness ==
    /\ last.op = "analyze"
    /\ last.text = <<Space, Space>>
    /\ last.shown = BlankWarning
    /\ Len(analysis_history) = 1

InUnitInterval(x) == x.num >= 0 /\ x.den > 0 /\ x.num <= x.den

\* C7: every category score of every record lies in [0,1]
C7_ScoresInUnitInterval ==
    \A r \in RecordsInState :
        /\ InUnitInterval(r.depression.score)
        /\ InUnitInterval(r.anxiety.score)
        /\ InUnitInterval(r.stress.score)
        /\ InUnitInterval(r.positive.score)

C7_Witness ==
    /\ last.op = "scoring"
    /\ last.total_words = 0
    /\ last.counts.depression = MaxCount
    /\ last.result.depression.score = One

\* the band of a score, each band by its own two bounds
Band(x) ==
    CASE 10 * x.num >= 3 * x.den -> "High"
      [] 10 * x.num < 3 * x.den /\ 20 * x.num >= 3 * x.den -> "Moderate"
      [] 20 * x.num < 3 * x.den /\ 20 * x.num >= x.den -> "Mild"
      [] 20 * x.num < x.den -> "Low"

Rank(severity) ==
    CASE severity = "Low" -> 0
      [] severity = "Mild" -> 1
      [] severity = "Moderate" -> 2
      [] severity = "High" -> 3

\* C8: get_severity gives each score in [0,1] its band, the bounds 0.05, 0.15
\* and 0.30 belonging to the upper band, a larger score never a lower band; and
\* in a record each category's severity is the band of its own score
C8_SeverityBanding ==
    /\ last.op = "get_severity" =>
        /\ last.result.a = Band(last.a)
        /\ last.result.b = Band(last.b)
        /\ RGeq(last.b, last.a) => Rank(last.result.b) >= Rank(last.result.a)
        /\ last.a = R(1, 20) => last.result.a = "Mild"
        /\ last.a = R(3, 20) => last.result.a = "Moderate"
        /\ last.a = R(3, 10) => last.result.a = "High"
    /\ last.op = "scoring" =>
        \A c \in Categories : last.result[c].severity = Band(last.result[c].score)

C8_Witness ==
    /\ last.op = "get_severity"
    /\ last.a = R(3, 20)
    /\ last.b = R(3, 10)
    /\ last.result = [a |-> "Moderate", b |-> "High"]

\* C9: every record of the history has overall_score equal to the mean of its
\* depression, anxiety and stress scores, and no step changes the scores or
\* the overall_score of a record that stays in the history
C9_OverallScoreIsMean ==
    /\ [](\A i \in 1..Len(analysis_history) :
            LET r == analysis_history[i]
            IN  3 * r.overall_score.num * r.depression.score.den
                    * r.anxiety.score.den * r.stress.score.den
                = r.overall_score.den
                    * ( r.depression.score.num * r.anxiety.score.den * r.stress.score.den
                      + r.anxiety.score.num * r.depression.score.den * r.stress.score.den
                      + r.stress.score.num * r.depression.score.den * r.anxiety.score.den ))
    /\ [][\A i \in 1..Len(analysis_history) :
            i <= Len(analysis_history') =>
                /\ analysis_history'[i].overall_score = analysis_history[i].overall_score
                /\ analysis_history'[i].depression = analysis_history[i].depression
                /\ analysis_history'[i].anxiety = analysis_history[i].anxiety
                /\ analysis_history'[i].stress = analysis_history[i].stress]_vars

C9_Witness ==
    /\ last.op = "pdf_report"
    /\ Len(analysis_history) = 2
    /\ analysis_history[1].overall_score = R(2, 3)
    /\ analysis_history[1].positive.score = Zero
    /\ analysis_history[2].overall_score = Zero
    /\ analysis_history[2].positive.score = One

\* the decision table, each row by its own bounds
TableRow(overall, positive) ==
    LET o(n, d) == overall.num * d >= n * overall.den
        p(n, d) == positive.num * d >= n * positive.den
    IN  CASE o(3, 10) /\ p(2, 10) ->
               "Mixed emotions with significant concerns - consider professional support"
          [] o(3, 10) /\ ~p(2, 10) ->
               "High concern detected - strongly recommend professional help"
          [] o(3, 20) /\ ~o(3, 10) /\ p(3, 10) ->
               "Moderate concerns with positive elements - monitor closely"
          [] o(3, 20) /\ ~o(3, 10) /\ ~p(3, 10) ->
               "Moderate concern - consider speaking with someone"
          [] o(1, 20) /\ ~o(3, 20) ->
               "Mild concerns detected - practice self-care"
          [] ~o(1, 20) /\ p(2, 10) ->
               "Positive mental state - keep up the good work!"
          [] ~o(1, 20) /\ ~p(2, 10) ->
               "Neutral state - maintain healthy habits"

\* C10: get_overall_assessment returns the row of the decision table for
\* (overall_score, positive_score), and a record's overall_assessment is the
\* row for its own overall_score and positive score
C10_AssessmentTable ==
    /\ last.op = "get_overall_assessment" =>
            last.result = TableRow(last.a, last.b)
    /\ last.op = "scoring" =>
            last.result.overall_assessment
                = TableRow(last.result.overall_score, last.result.positive.score)

C10_Witness ==
    /\ last.op = "get_overall_assessment"
    /\ last.a = R(3, 20)
    /\ last.b = R(1, 4)
    /\ last.result = "Moderate concern - consider speaking with someone"

---------------------------------------------------------------------------
(* Properties of the history and of the accounts *)

\* a run that handles the Analyze Text button with non-blank text in the area
AnalyzeNonBlank ==
    \E t \in AppTexts, env \in AppEnvs : NonBlank(t) /\ AnalyzeButton(t, env)

\* a run that empties the history: Clear History or Logout
Reset ==
    \E lexicon \in BOOLEAN : ClearHistory(lexicon) \/ Logout(lexicon)

\* C11: the history is an append-only log between resets: every Analyze on
\* non-blank text appends exactly one record at the end and keeps the earlier
\* records as they were, Clear History and Logout empty the history, and every
\* other step leaves the history as it was
C11_AppendOnlyLog ==
    [][/\ AnalyzeNonBlank =>
            /\ Len(analysis_history') = Len(analysis_history) + 1
            /\ SubSeq(analysis_history', 1, Len(analysis_history)) = analysis_history
       /\ Reset => analysis_history' = <<>>
       /\ ~AnalyzeNonBlank /\ ~Reset => analysis_history' = analysis_history]_vars

\* a record without its timestamp
Untimed(r) == [r EXCEPT !.timestamp = 0]

\* the NLTK resources of a run in which both tokenizer and scorer answer, the
\* scorer with the given scores
AnsweringEnv(sentiment) ==
    [punkt |-> TRUE, lexicon |-> TRUE, scorer |-> TRUE, vader |-> sentiment]

\* C12: analyze_text depends on its text only: two records of the history made
\* from the same text differ in nothing but the timestamp, and analysing the
\* text of a record again in the present state, with the scorer answering as
\* it did, returns the record again up to the timestamp
C12_AnalysisDependsOnTextOnly ==
    \A i \in 1..Len(analysis_history) :
        LET r == analysis_history[i]
            again == analyze_text(r.text, AnsweringEnv(r.sentiment), now)
        IN  /\ again.status = "ok"
            /\ Untimed(again.value) = Untimed(r)
            /\ \A j \in 1..Len(analysis_history) :
                    analysis_history[j].text = r.text
                        => Untimed(analysis_history[j]) = Untimed(r)

C12_Witness ==
    /\ Len(analysis_history) = 2
    /\ analysis_history[1].text = analysis_history[2].text
    /\ analysis_history[1].timestamp # analysis_history[2].timestamp
    /\ analysis_history[1].highlighted_phrases # <<>>
    /\ Cardinality(DOMAIN users_db) = 2

\* C13: every record has a result with score, severity and count for each of
\* the four categories; a category with count 0 has score 0 and severity Low
\* whatever the number of words; and with the three negative counts 0 the
\* overall_score is 0 and the assessment is the positive text when the
\* positive score is at least 0.20 and the neutral text otherwise
C13_ZeroCountIsZeroScore ==
    \A r \in RecordsInState :
        /\ \A c \in Categories :
                /\ c \in DOMAIN r
                /\ DOMAIN r[c] = {"score", "severity", "count"}
                /\ r[c].count = 0 => r[c].score = Zero /\ r[c].severity = "Low"
        /\ (r.depression.count = 0 /\ r.anxiety.count = 0 /\ r.stress.count = 0) =>
                /\ r.overall_score = Zero
                /\ r.overall_assessment
                     = IF RGeq(r.positive.score, R(20, 100))
                       THEN "Positive mental state - keep up the good work!"
                       ELSE "Neutral state - maintain healthy habits"

C13_Witness ==
    /\ last.op = "scoring"
    /\ last.total_words = 0
    /\ last.counts = [depression |-> 0, anxiety |-> 0, stress |-> 0, positive |-> 1]
    /\ last.result.positive.score = One
    /\ last.result.depression.severity = "Low"
    /\ last.result.overall_assessment = "Positive mental state - keep up the good work!"

KeywordsOfType(type) ==
    CASE type = "depression" -> depression_keywords
      [] type = "anxiety" -> anxiety_keywords
      [] type = "stress" -> stress_keywords
      [] OTHER -> <<>>

\* the phrase p is one that the sentence s gives: s stripped in its own
\* casing, with the first keyword of the type's list that is in s lowercased
PhraseOfSentence(p, s) ==
    /\ p.phrase = Strip(s)
    /\ LET kws == KeywordsOfType(p.type)
       IN  \E k \in 1..Len(kws) :
                /\ kws[k] = p.keyword
                /\ Contains(Lower(s), kws[k])
                /\ \A j \in 1..(k - 1) : ~Contains(Lower(s), kws[j])

\* C14: every phrase has a negative type, never positive; it carries its
\* sentence stripped and in the original casing, with the earliest keyword of
\* its type's list found in the lowercased sentence; the phrases follow the
\* order of their sentences; and a text without sentences or without a
\* negative keyword in any sentence gives the empty list
C14_PhraseContents ==
    PhrasesReturned =>
        LET ss == sent_tokenize(last.text)
            ps == last.result.value
        IN  /\ \A i \in 1..Len(ps) : ps[i].type \in {"depression", "anxiety", "stress"}
            /\ \E f \in [1..Len(ps) -> 1..Len(ss)] :
                    /\ \A i \in 1..Len(ps) : PhraseOfSentence(ps[i], ss[f[i]])
                    /\ \A i, j \in 1..Len(ps) : i <= j => f[i] <= f[j]
            /\ (\A i \in 1..Len(ss) : TypesIn(ss[i]) = <<>>) => ps = <<>>

C14_Witness ==
    /\ PhrasesReturned
    /\ last.text = <<"overwhelmed", Space, "worried", Stop>>
    /\ last.result.value
         = << [phrase |-> last.text, type |-> "anxiety", keyword |-> <<"worried">>],
              [phrase |-> last.text, type |-> "stress", keyword |-> <<"overwhelmed">>] >>

\* C15: for count c and word count W the score is min(c / max(0.1 * W, 1), 1):
\* it is c / (0.1 * W) when W > 10 and c < 0.1 * W; it is exactly 1 if and only
\* if c >= 1 and 10 * c >= W; with at most 10 words one hit gives score 1 and
\* severity High; and for the same W a larger count gives no smaller score
C15_ScoreFormula ==
    last.op = "scoring" =>
        \A cat \in Categories :
            LET c == last.counts[cat]
                W == last.total_words
                s == last.result[cat].score
            IN  /\ (W > 10 /\ 10 * c < W) => s.num * W = 10 * c * s.den
                /\ W <= 10 => s = (IF c >= 1 THEN One ELSE Zero)
                /\ s = One <=> (c >= 1 /\ 10 * c >= W)
                /\ (W <= 10 /\ c = 1) => last.result[cat].severity = "High"
                /\ \A more \in c..MaxCount : RGeq(CategoryScore(more, W), s)
                /\ \A less \in 0..c : RGeq(s, CategoryScore(less, W))

C15_Witness ==
    /\ last.op = "scoring"
    /\ last.total_words = 40
    /\ last.counts = [depression |-> 4, anxiety |-> 3, stress |-> 0, positive |-> 1]
    /\ last.result.depression.score = One
    /\ last.result.anxiety.score = R(3, 4)
    /\ last.result.positive.score = R(1, 4)

\* the records made from a text: the one just returned and those of the history
TextRecords ==
    (IF RecordReturned THEN {last.result.value} ELSE {})
    \cup {analysis_history[i] : i \in 1..Len(analysis_history)}

\* C16: in every record the phrases and the counts agree: a phrase of a
\* category carries a keyword of that category's list that is in the
\* lowercased text, so the category's count is at least 1; and with the three
\* negative counts 0 there is no phrase
C16_PhrasesAgreeWithCounts ==
    \A r \in TextRecords :
        /\ \A i \in 1..Len(r.highlighted_phrases) :
                LET p == r.highlighted_phrases[i]
                    kws == KeywordsOfType(p.type)
                IN  /\ r[p.type].count >= 1
                    /\ \E k \in 1..Len(kws) : kws[k] = p.keyword
                    /\ Contains(Lower(r.text), p.keyword)
        /\ (r.depression.count = 0 /\ r.anxiety.count = 0 /\ r.stress.count = 0)
                => r.highlighted_phrases = <<>>

C16_Witness ==
    /\ RecordReturned
    /\ last.text = <<"Sad", Stop, Space, "overwhelmed">>
    /\ Len(last.result.value.highlighted_phrases) = 3
    /\ last.result.value.depression.count = 1
    /\ last.result.value.anxiety.count = 1
    /\ last.result.value.stress.count = 1

\* C17: with no user logged in the history is empty; a record is appended
\* only in a step that starts and ends with the same user logged in; Logout
\* empties the history; and a step that changes the user ends with the
\* history empty, so the records a user sees were made since that user's login
C17_HistoryBelongsToSession ==
    /\ [](~user_logged_in => analysis_history = <<>>)
    /\ [][/\ Len(analysis_history') > Len(analysis_history) =>
                /\ user_logged_in /\ user_logged_in'
                /\ current_user' = current_user
          /\ (\E lexicon \in BOOLEAN : Logout(lexicon)) => analysis_history' = <<>>
          /\ current_user' # current_user => analysis_history' = <<>>]_vars

C17_Witness ==
    /\ last.op = "logout"
    /\ ~user_logged_in
    /\ analysis_history = <<>>
    /\ DOMAIN users_db = Usernames
    /\ now = MaxTime

\* the credentials that log in: both fields filled, the username in users_db
\* and the hash of the password equal to the stored one
ValidCredentials(username, password) ==
    /\ username # ""
    /\ password # ""
    /\ username \in DOMAIN users_db
    /\ users_db[username].password = hash_password(password)

\* C18: user_logged_in holds exactly when current_user is not None, and then
\* current_user is in users_db; a step that logs a user in is a login with
\* valid credentials of that user; and a login with a missing field, an
\* unknown username or a wrong password leaves user_logged_in, current_user,
\* users_db and the history unchanged
C18_LoginState ==
    /\ [](/\ user_logged_in <=> current_user # "None"
          /\ user_logged_in => current_user \in DOMAIN users_db)
    /\ [][/\ (~user_logged_in /\ user_logged_in') =>
                /\ last'.op = "login"
                /\ ValidCredentials(last'.username, last'.password)
                /\ current_user' = last'.username
          /\ last'.op = "login" =>
             \A u \in Usernames \cup {""}, p \in Passwords \cup {""} :
                (Login(u, p) /\ ~ValidCredentials(u, p)) =>
                    UNCHANGED <<user_logged_in, current_user, users_db,
                                analysis_history>>]_vars

C18_Witness ==
    /\ last.op = "login"
    /\ last.shown = "Invalid password"
    /\ last.username \in DOMAIN users_db
    /\ users_db[last.username].password # hash_password(last.password)
    /\ ~user_logged_in
    /\ current_user = "None"

\* the sign-up form that reaches create_user: every field filled, the two
\* passwords equal and the terms accepted
FormAccepted(new_username, new_email, new_password, confirm_password, terms) ==
    /\ new_username # ""
    /\ new_email # ""
    /\ new_password # ""
    /\ confirm_password # ""
    /\ new_password = confirm_password
    /\ terms

\* C19: no step removes or changes an entry of users_db; a sign-up changes
\* nothing but users_db; for a username already in users_db, or a form with a
\* missing field, mismatched passwords or unaccepted terms, it leaves users_db
\* unchanged; and for a new username and an accepted form it adds exactly the
\* entry of that username, with the hash of the given password and the email
C19_AccountsNeverOverwritten ==
    [][/\ \A u \in DOMAIN users_db :
            u \in DOMAIN users_db' /\ users_db'[u] = users_db[u]
       /\ last'.op = "signup" =>
          \A u \in Usernames \cup {""}, e \in Emails \cup {""},
             p \in Passwords \cup {""}, c \in Passwords \cup {""}, t \in BOOLEAN :
            SignUp(u, e, p, c, t) =>
                /\ UNCHANGED <<user_logged_in, current_user, analysis_history>>
                /\ IF FormAccepted(u, e, p, c, t) /\ u \notin DOMAIN users_db
                   THEN /\ DOMAIN users_db' = DOMAIN users_db \cup {u}
                        /\ users_db'[u].password = hash_password(p)
                        /\ users_db'[u].email = e
                        /\ last'.shown = "User created successfully"
                   ELSE /\ users_db' = users_db
                        /\ FormAccepted(u, e, p, c, t)
                                => last'.shown = "Username already exists"]_vars

C19_Witness ==
    /\ last.op = "signup"
    /\ last.shown = "Username already exists"
    /\ last.form.username \in DOMAIN users_db
    /\ users_db[last.form.username].password # hash_password(last.form.password)
    /\ verify_user(users_db, last.form.username, last.form.password).message
         = "Invalid password"

====
